---------------------------- MODULE Spec2Model ----------------------------
(***************************************************************************)
(* Model of the generate-execute-record feedback loop of                   *)
(* scripts/train_fhir_agent.py and of the model client of                  *)
(* src/models/ollama.py.                                                   *)
(*                                                                         *)
(* Text is modelled as a sequence of characters/fragments, so that         *)
(* concatenation is \o.  An error text is modelled as the sequence of its  *)
(* colon-separated segments, so that error.split(":")[0] is Head.          *)
(***************************************************************************)
EXTENDS Integers, Sequences, FiniteSets, TLC

VARIABLES
    \* ---- OllamaClient.generate called directly ----
    cl_call,            \* arguments and transport behaviour of the last call
    cl_result,          \* what that call returned or raised
    \* ---- another operation of the repository called directly ----
    fn_call,            \* the operation, its arguments, its collaborators
    fn_result,          \* what the call has returned or raised so far
    \* ---- generate_and_test_code: locals of the running coroutine ----
    pc,                 \* position of the coroutine
    prompt,             \* the task text (never reassigned by the loop)
    max_attempts,       \* the budget
    trainer,            \* TRUE iff a FHIRAgentTrainer is attached
    attempt,            \* loop index, 0-based
    response,           \* content of the last ModelResponse
    file_path,          \* result of the last save_generated_code
    success,            \* outcome of the last execution
    error,              \* error text of the last execution (<<>> is None)
    \* ---- persistent state of the trainer ----
    training_attempts,  \* table, in insertion order
    task_best_versions, \* table: task_hash -> best_version (0: no row)
    files,              \* names of the files written under tools_dir
    \* ---- observation of the run ----
    runs,               \* submissions so far
    budgeted,           \* sum of the budgets submitted so far
    genCalls,           \* client.generate calls of this run
    execCalls,          \* execute_generated_code calls of this run
    recCalls,           \* record_attempt calls of this run
    sentPrompts,        \* the prompt of each generate call of this run
    execErrors,         \* the error text of each execution of this run
    lastGen,            \* how the last generation wait ended
    lastExec,           \* how the last execution wait ended
    lastRec,            \* arguments of the last record_attempt call
    sawSuccess,         \* some execution of this run returned success
    env                 \* which collaborators misbehaved in this run

clientVars == <<cl_call, cl_result>>
callVars == <<fn_call, fn_result>>
loopVars == <<pc, prompt, max_attempts, trainer, attempt, response, file_path,
              success, error>>
dbVars == <<training_attempts, task_best_versions, files>>
obsVars == <<runs, budgeted, genCalls, execCalls, recCalls, sentPrompts, execErrors,
             lastGen, lastExec, lastRec, sawSuccess, env>>
vars == <<clientVars, callVars, loopVars, dbVars, obsVars>>

-----------------------------------------------------------------------------
(* Bounds of the model *)

MaxLines == 3

MaxRuns == 2

MaxBudget == 3

\* attempts over all runs together
MaxTotal == 4

\* lines of a text given to clean_generated_code
MaxTextLines == 3

-----------------------------------------------------------------------------
(* OllamaClient (src/models/ollama.py) *)

model == "deepseek-coder"

\* temperatures are in tenths: 0.7 is 7
DefaultTemperature == 7

DefaultMaxTokens == 2000

None == <<>>

\* A line of the response body, after json.loads has looked at it:
\*   blank      not line.strip()
\*   malformed  json.loads raises JSONDecodeError
\*   scalar     valid JSON that is no object (42, "x", [1], null)
\*   object     a JSON object; resp says whether it has a "response" key and
\*              whether its value is text
Line(kind, resp, text, done) ==
    [kind |-> kind, resp |-> resp, text |-> text, done |-> done]

BlankLine == Line("blank", "absent", <<>>, FALSE)
MalformedLine == Line("malformed", "absent", <<>>, FALSE)
ScalarLine == Line("scalar", "absent", <<>>, FALSE)
EmptyObject == Line("object", "absent", <<>>, FALSE)

Lines ==
    { BlankLine, MalformedLine, ScalarLine, EmptyObject,
      Line("object", "text", <<"a">>, FALSE),
      Line("object", "text", <<"b">>, TRUE),
      Line("object", "absent", <<>>, TRUE),
      Line("object", "null", <<>>, FALSE) }

SeqsUpTo(S, n) == UNION { [1..k -> S] : k \in 0..n }

Bodies == SeqsUpTo(Lines, MaxLines)

Statuses == {200, 404, 500}

\* httpx.Response.raise_for_status: HTTPStatusError unless 2xx
is_success(status) == status >= 200 /\ status < 300

\* the transport either raises a httpx.RequestError subclass or answers
Transports == {"answer", "ConnectError", "ReadTimeout"}

\* `except httpx.RequestError`: HTTPStatusError derives from HTTPError, not
\* from RequestError; AttributeError and TypeError are builtins
IsRequestError(exc) == exc \in {"ConnectError", "ReadTimeout"}

\* the mapping of a parsed object (what `data` is)
Mapping(line) == [resp |-> line.resp, text |-> line.text, done |-> line.done]

EmptyMapping == Mapping(EmptyObject)

\* the body of the for loop over the lines: acc is
\* [raised, full_response, last_data]
ParseLine(acc, line) ==
    IF acc.raised # "none" THEN acc
    ELSE IF line.kind = "blank" THEN acc
    ELSE IF line.kind = "malformed" THEN acc
    ELSE IF line.kind = "scalar" THEN [acc EXCEPT !.raised = "AttributeError"]
    ELSE IF line.resp = "null" THEN [acc EXCEPT !.raised = "TypeError"]
    ELSE [acc EXCEPT
            !.full_response =
                @ \o (IF line.resp = "text" THEN line.text ELSE <<>>),
            !.last_data = <<Mapping(line)>>]

RECURSIVE ParseLines(_, _)
ParseLines(acc, lines) ==
    IF lines = <<>> THEN acc
    ELSE ParseLines(ParseLine(acc, Head(lines)), Tail(lines))

Raised(exc) ==
    [raised |-> exc, content |-> <<>>, metadata |-> None,
     raw_response |-> EmptyMapping]

\* the except clause of generate
WrapRequestError(exc) ==
    IF IsRequestError(exc) THEN "ModelServiceError" ELSE exc

\* a parameter with a default value: None stands for an omitted argument
bound_argument(passed, default) ==
    IF passed = None THEN default ELSE passed[1]

\* a metadata that reports the default values whatever was passed
metadata_of_Defaults(temperature, max_tokens) ==
    [model |-> model, temperature |-> DefaultTemperature,
     max_tokens |-> DefaultMaxTokens]

\* metadata={"model": self.model, "temperature": temperature,
\*           "max_tokens": max_tokens}
metadata_of(temperature, max_tokens) ==
    [model |-> model, temperature |-> temperature, max_tokens |-> max_tokens]

\* OllamaClient.generate under a transport that behaves as (transport,
\* status, body)
generate(temperature, max_tokens, transport, status, body) ==
    IF transport # "answer" THEN Raised(WrapRequestError(transport))
    ELSE IF ~is_success(status)
    THEN Raised(WrapRequestError("HTTPStatusError"))
    ELSE LET acc == ParseLines([raised |-> "none", full_response |-> <<>>,
                                last_data |-> None], body)
         IN  IF acc.raised # "none" THEN Raised(WrapRequestError(acc.raised))
             ELSE [raised |-> "none",
                   content |-> acc.full_response,
                   metadata |-> <<metadata_of(temperature, max_tokens)>>,
                   raw_response |->
                       IF acc.last_data = None THEN EmptyMapping
                       ELSE acc.last_data[1]]

\* what GET /api/tags may answer with
HealthStatuses == {200, 204, 404, 500}

Returned(value) == [raised |-> "none", value |-> value]

Propagated(exc) == [raised |-> exc, value |-> None]

\* health_check without its try/except: a transport fault leaves the call
health_check_Uncaught(transport, status) ==
    IF transport # "answer" THEN Propagated(transport)
    ELSE Returned(status = 200)

\* OllamaClient.health_check under a transport that behaves as (transport,
\* status)
health_check(transport, status) ==
    IF transport # "answer"
    THEN IF IsRequestError(transport) THEN Returned(FALSE)
         ELSE Propagated(transport)
    ELSE Returned(status = 200)

-----------------------------------------------------------------------------
(* FHIRAgentTrainer (scripts/train_fhir_agent.py) *)

Tasks == {"print hello", "x"}

\* hashlib.md5(task.encode()).hexdigest()[:8]
task_hash(task) == IF task = "x" THEN "9dd4e461" ELSE "b278b9d7"

Max(S) == CHOOSE m \in S : \A n \in S : n <= m

\* SELECT MAX(version) + 1 FROM training_attempts WHERE task_hash = $1
\* (0 stands for the NULL of an empty selection)
MaxVersionPlusOne(rows, h) ==
    LET vs == { rows[i].version : i \in { j \in 1..Len(rows) : rows[j].task_hash = h } }
    IN  IF vs = {} THEN 0 ELSE Max(vs) + 1

\* fetchval(...) or 1
current_version(rows, h) ==
    IF MaxVersionPlusOne(rows, h) = 0 THEN 1 ELSE MaxVersionPlusOne(rows, h)

\* error.split(":")[0] if error else None
error_type_LastSegment(err) == IF err = None THEN None ELSE <<err[Len(err)]>>

error_type(err) == IF err = None THEN None ELSE <<Head(err)>>

\* the row of the INSERT INTO training_attempts
AttemptRow(task, code, succ, err, file_location, rows) ==
    [task |-> task,
     task_hash |-> task_hash(task),
     version |-> current_version(rows, task_hash(task)),
     code_snippet |-> code,
     success |-> succ,
     error_message |-> err,
     error_type |-> error_type(err),
     file_location |-> file_location]

\* an upsert whose UPDATE reaches every row of the table
UpsertBestVersion_AllRows(best, h, v) == [k \in DOMAIN best |-> v]

\* INSERT INTO task_best_versions ... ON CONFLICT (task_hash) DO UPDATE
UpsertBestVersion(best, h, v) == [best EXCEPT ![h] = v]

\* The statements of record_attempt run one after another on a connection
\* without a transaction.  outcome says where a statement raised:
\*   "ok"            none did
\*   "fault_before"  acquire, the SELECT or the INSERT raised: nothing written
\*   "fault_upsert"  the upsert raised, after the INSERT was committed
RecordOutcomes == {"ok", "fault_before", "fault_upsert"}

record_attempt(rows, best, task, code, succ, err, file_location, outcome) ==
    LET row == AttemptRow(task, code, succ, err, file_location, rows)
    IN  IF outcome = "fault_before"
        THEN [training_attempts |-> rows, task_best_versions |-> best,
              raised |-> TRUE]
        ELSE IF ~succ
        THEN [training_attempts |-> Append(rows, row),
              task_best_versions |-> best, raised |-> FALSE]
        ELSE IF outcome = "fault_upsert"
        THEN [training_attempts |-> Append(rows, row),
              task_best_versions |-> best, raised |-> TRUE]
        ELSE [training_attempts |-> Append(rows, row),
              task_best_versions |->
                  UpsertBestVersion(best, row.task_hash, row.version),
              raised |-> FALSE]

\* f"{'_'.join(task_words)}_{task_hash}_v{version}.py"
file_name(task, rows) ==
    [slug |-> task, task_hash |-> task_hash(task),
     version |-> current_version(rows, task_hash(task))]

\* save_generated_code: the version query, then write_text
save_generated_code(written, rows, task, outcome) ==
    IF outcome = "ok"
    THEN [files |-> written \cup {file_name(task, rows)},
          file_path |-> <<file_name(task, rows)>>, raised |-> FALSE]
    ELSE [files |-> written, file_path |-> None, raised |-> TRUE]

\* the methods of FHIRAgentTrainer that use the connection pool
TrainerMethods == {"record_attempt", "get_enhanced_prompt", "save_generated_code"}

\* the number of statements a call sends over its connection: record_attempt
\* sends the upsert only when success, get_enhanced_prompt the error_solution
\* query only when error; flag stands for success and for error
queries_of(method, flag) ==
    CASE method = "record_attempt"      -> IF flag THEN 3 ELSE 2
      [] method = "get_enhanced_prompt" -> IF flag THEN 3 ELSE 2
      [] method = "save_generated_code" -> 1

\* a release that is skipped when a query raised
release_OnSuccessOnly(held, raised) == IF raised THEN held ELSE held - 1

\* __aexit__ of `async with self.db_pool.acquire() as conn`
release(held, raised) == held - 1

\* `except Exception`: SystemExit, KeyboardInterrupt and GeneratorExit derive
\* from BaseException only
IsException(kind) == kind \notin {"SystemExit", "KeyboardInterrupt", "GeneratorExit"}

-----------------------------------------------------------------------------
(* OllamaClient as a scoped session *)

\* how the body of `async with OllamaClient() as client` is left
ExitPaths == {"return", "fault", "cancel"}

\* exc_type handed to __aexit__ for each way of leaving the body
exc_type_of(exit) ==
    CASE exit = "return" -> None
      [] exit = "fault"  -> <<"RuntimeError">>
      [] exit = "cancel" -> <<"CancelledError">>

\* an __aexit__ that closes only when the body returned
aexit_OnReturnOnly(client, exc_type) ==
    IF exc_type = None THEN "closed" ELSE client

\* __aexit__: await self.client.aclose(), whatever exc_type is
aexit(client, exc_type) == "closed"

-----------------------------------------------------------------------------
(* FHIRClient.get_patient *)

\* what the FHIR server does with a read
Upstreams == {"answer", "ConnectionError", "FHIRUnauthorizedException"}

PatientIds == {"example", "nonexistent-123"}

\* the patients the server holds
StoredPatients == {"example"}

\* top-level fields a Patient document may carry beside resourceType and id
OptionalFields == {"managingOrganization", "generalPractitioner", "link", "contact"}

\* the order of the keys of a document
FieldOrder ==
    <<"resourceType", "id", "managingOrganization", "generalPractitioner",
      "link", "contact">>

\* the references held by the value of a top-level field
field_value(field) ==
    CASE field = "managingOrganization" -> <<"Organization/1">>
      [] field = "generalPractitioner"  -> <<"Practitioner/1", "Practitioner/2">>
      [] field = "link"                 -> <<"Patient/2">>
      [] field = "contact"              -> <<"Organization/2">>
      [] OTHER                          -> <<>>

\* patient.Patient.read(id, server): the resource, or the fault it raises
Patient_read(patient_id, upstream, fields) ==
    IF upstream # "answer" THEN [raised |-> upstream, fields |-> {}]
    ELSE IF patient_id \notin StoredPatients
    THEN [raised |-> "FHIRNotFoundException", fields |-> {}]
    ELSE [raised |-> "none", fields |-> fields \cup {"resourceType", "id"}]

\* list(resource.as_json().keys())
json_keys(resource) ==
    SelectSeq(FieldOrder, LAMBDA f : f \in resource.fields)

\* resource.as_json()
as_json(patient_id, resource) ==
    [resourceType |-> "Patient", id |-> patient_id, keys |-> json_keys(resource)]

\* a get_patient whose handler is `except FHIRNotFoundException`
get_patient_NotFoundOnly(patient_id, upstream, fields) ==
    LET search == Patient_read(patient_id, upstream, fields) IN
    IF search.raised = "none" THEN Returned(<<as_json(patient_id, search)>>)
    ELSE IF search.raised = "FHIRNotFoundException" THEN Returned(None)
    ELSE Propagated(search.raised)

get_patient(patient_id, upstream, fields) ==
    LET search == Patient_read(patient_id, upstream, fields) IN
    IF search.raised = "none" THEN Returned(<<as_json(patient_id, search)>>)
    ELSE IF IsException(search.raised) THEN Returned(None)
    ELSE Propagated(search.raised)

-----------------------------------------------------------------------------
(* FHIRExplorer *)

\* self.resource_types
resource_types ==
    {"Patient", "Observation", "Condition", "Procedure", "MedicationRequest"}

ResourceTypes == {"Patient", "Observation", "patient", ""}

\* the type is one of self.resource_types
supported_Listed(resource_type) == resource_type \in resource_types

\* resource_type == "Patient"
supported(resource_type) == resource_type = "Patient"

\* What an explorer method gives back: kind is the one key of the returned
\* mapping ("none" when the method raised instead of returning), reads is
\* the number of reads made against the server.
\* {"error": f"Resource type {resource_type} not yet supported"}
NotYetSupported(resource_type) ==
    [kind |-> "error", raised |-> "none", reads |-> 0, resourceType |-> None,
     references |-> <<>>, keys |-> <<>>,
     message |-> <<"Resource type ", resource_type, " not yet supported">>]

ExplorerRaised(exc) ==
    [kind |-> "none", raised |-> exc, reads |-> 1, resourceType |-> None,
     references |-> <<>>, keys |-> <<>>, message |-> <<>>]

\* a handler that is `except FHIRNotFoundException`
ExploreError_NotFoundOnly(prefix, exc) ==
    IF exc = "FHIRNotFoundException"
    THEN [kind |-> "error", raised |-> "none", reads |-> 1,
          resourceType |-> None, references |-> <<>>, keys |-> <<>>,
          message |-> <<prefix, exc>>]
    ELSE ExplorerRaised(exc)

\* except Exception as e: return {"error": f"... {str(e)}"}
ExploreError(prefix, exc) ==
    IF IsException(exc)
    THEN [kind |-> "error", raised |-> "none", reads |-> 1,
          resourceType |-> None, references |-> <<>>, keys |-> <<>>,
          message |-> <<prefix, exc>>]
    ELSE ExplorerRaised(exc)

explore_resource_structure(resource_type, upstream, fields) ==
    IF supported(resource_type)
    THEN LET sample == Patient_read("example", upstream, fields) IN
         IF sample.raised # "none"
         THEN ExploreError("Error exploring " \o resource_type \o ": ", sample.raised)
         ELSE [kind |-> "structure", raised |-> "none", reads |-> 1,
               resourceType |-> <<"Patient">>, references |-> <<>>,
               keys |-> json_keys(sample), message |-> <<>>]
    ELSE NotYetSupported(resource_type)

\* the field list with a field added whose references are nested
reference_fields_WithLink ==
    <<[type |-> "Organization", field |-> "managingOrganization"],
      [type |-> "Practitioner", field |-> "generalPractitioner"],
      [type |-> "Patient", field |-> "link"]>>

\* the fields the two `if ... in pat_json` tests look at, in their order
reference_fields ==
    <<[type |-> "Organization", field |-> "managingOrganization"],
      [type |-> "Practitioner", field |-> "generalPractitioner"]>>

\* references.append({...}) for each of the fields that pat_json holds
RECURSIVE collect_references(_, _)
collect_references(pat_fields, todo) ==
    IF todo = <<>> THEN <<>>
    ELSE LET f == Head(todo) IN
         (IF f.field \in pat_fields
          THEN <<[type |-> f.type, field |-> f.field,
                  reference |-> field_value(f.field)]>>
          ELSE <<>>)
         \o collect_references(pat_fields, Tail(todo))

get_resource_relationships(resource_id, resource_type, upstream, fields) ==
    IF supported(resource_type)
    THEN LET pat == Patient_read(resource_id, upstream, fields) IN
         IF pat.raised # "none"
         THEN ExploreError("Error exploring relationships: ", pat.raised)
         ELSE [kind |-> "references", raised |-> "none", reads |-> 1,
               resourceType |-> None,
               references |-> collect_references(pat.fields, reference_fields),
               keys |-> <<>>, message |-> <<>>]
    ELSE NotYetSupported(resource_type)

-----------------------------------------------------------------------------
(* clean_generated_code *)

\* A text is the sequence of the lines that split("\n") gives (never empty:
\* "" splits into one empty line).  A line is a sequence of tokens:
\*   "sp"    white space
\*   "Here"  a capitalised word that begins with one of the stock prefixes
\*   "fence" the three backquotes of a code fence
\*   "py"    the language tag of a fence
\*   "#"     a hash sign
\*   "."     a period
\*   "X"     a capitalised word without a stock prefix
\*   "x"     a lower-case word without a stock prefix
LineShapes ==
    { <<>>, <<"sp">>, <<"x">>, <<"sp", "x">>, <<"x", "sp">>, <<"x", ".", "x">>,
      <<"Here", "x">>, <<"fence">>, <<"fence", "py">>, <<"sp", "fence">>,
      <<"X", "x">>, <<"X", "x", ".">>, <<"sp", "X", ".">>,
      <<"#", "X", ".">>, <<"sp", "#">> }

Texts == SeqsUpTo(LineShapes, MaxTextLines) \ {<<>>}

RECURSIVE lstrip(_)
lstrip(line) ==
    IF line # <<>> /\ Head(line) = "sp" THEN lstrip(Tail(line)) ELSE line

RECURSIVE rstrip(_)
rstrip(line) ==
    IF line # <<>> /\ line[Len(line)] = "sp"
    THEN rstrip(SubSeq(line, 1, Len(line) - 1)) ELSE line

\* line.strip()
strip(line) == rstrip(lstrip(line))

\* any(line.lower().startswith(text) for text in [...])
starts_with_stock_text(line) == line # <<>> /\ Head(line) \in {"Here", "fence"}

\* line[0].isupper() and "." in line
looks_like_explanation(line) ==
    /\ Head(line) \in {"Here", "X"}
    /\ \E i \in 1..Len(line) : line[i] = "."

\* code_lines.append(line.strip()): the line is stored without its margin
appended_line_Stripped(line) == strip(line)

\* code_lines.append(line)
appended_line(line) == line

\* the body of the loop over the lines
clean_line(code_lines, line) ==
    IF starts_with_stock_text(line) THEN code_lines
    ELSE IF code_lines = <<>> /\ strip(line) = <<>> THEN code_lines
    ELSE IF strip(line) # <<>> /\ Head(strip(line)) # "#"
            /\ looks_like_explanation(line)
    THEN code_lines
    ELSE Append(code_lines, appended_line(line))

RECURSIVE clean_lines(_, _)
clean_lines(code_lines, lines) ==
    IF lines = <<>> THEN code_lines
    ELSE clean_lines(clean_line(code_lines, Head(lines)), Tail(lines))

\* while code_lines and not code_lines[-1].strip(): code_lines.pop()
RECURSIVE pop_trailing_blank(_)
pop_trailing_blank(code_lines) ==
    IF code_lines # <<>> /\ strip(code_lines[Len(code_lines)]) = <<>>
    THEN pop_trailing_blank(SubSeq(code_lines, 1, Len(code_lines) - 1))
    ELSE code_lines

\* "\n".join(code_lines), read again as lines: joining nothing gives "",
\* which is one empty line
join_lines(code_lines) == IF code_lines = <<>> THEN << <<>> >> ELSE code_lines

clean_generated_code(content) ==
    join_lines(pop_trailing_blank(clean_lines(<<>>, content)))

-----------------------------------------------------------------------------
(* execute_generated_code *)

\* what the generated module raises while it is loaded or while main() runs
FaultKinds == {"NameError", "SystemExit"}

\* f"{type(e).__name__}: {str(e)}", as its colon-separated segments
ErrorText(kind) == <<kind, " name 'x' is not defined">>

execute_generated_code(fault) ==
    IF fault = "none"
    THEN [propagated |-> "none", success |-> TRUE, error |-> None]
    ELSE IF IsException(fault)
    THEN [propagated |-> "none", success |-> FALSE, error |-> ErrorText(fault)]
    ELSE [propagated |-> fault, success |-> FALSE, error |-> None]

\* the execution wait without its `except TimeoutError` clause: the timeout
\* leaves the step as a fault
ExecTimeoutOutcome_Uncaught ==
    [propagated |-> "TimeoutError", success |-> FALSE, error |-> None]

\* except TimeoutError: success, error = False, "Execution timed out"
ExecTimeoutOutcome ==
    [propagated |-> "none", success |-> FALSE,
     error |-> <<"Execution timed out">>]

-----------------------------------------------------------------------------
(* generate_and_test_code *)

Hashes == { task_hash(t) : t \in Tasks }

NoEnv == [genFailed |-> FALSE, execFailed |-> FALSE, dbFault |-> FALSE]

NoRec == [success |-> FALSE, error |-> None, file_location |-> None]

InitClient ==
    /\ cl_call = None
    /\ cl_result = None

InitLoop ==
    /\ pc = "Idle"
    /\ prompt = "x"
    /\ max_attempts = 0
    /\ trainer = FALSE
    /\ attempt = 0
    /\ response = None
    /\ file_path = None
    /\ success = FALSE
    /\ error = None
    /\ training_attempts = <<>>
    /\ task_best_versions = [h \in Hashes |-> 0]
    /\ files = {}
    /\ runs = 0
    /\ budgeted = 0
    /\ genCalls = 0
    /\ execCalls = 0
    /\ recCalls = 0
    /\ sentPrompts = <<>>
    /\ execErrors = <<>>
    /\ lastGen = "none"
    /\ lastExec = "none"
    /\ lastRec = NoRec
    /\ sawSuccess = FALSE
    /\ env = NoEnv

InitCall ==
    /\ fn_call = None
    /\ fn_result = None

Init == InitClient /\ InitCall /\ InitLoop

\* what the loop passes as prompt= to client.generate: the task as it was
\* submitted; the error of the previous attempt is not part of it
generation_prompt(task, previous_error) == [task |-> task, error |-> None]

\* the next iteration of `for attempt in range(max_attempts)`
NextIteration(a, budget) ==
    [attempt |-> a + 1,
     pc |-> IF a + 1 < budget THEN "Generating" ELSE "Exhausted"]

\* the except clauses of the generation wait without their `continue`: the
\* attempt falls through to the save step
AfterGenerationFailure_FallThrough(a, budget) ==
    [attempt |-> a, pc |-> "Saving"]

\* `continue` in the except clauses of the generation wait
AfterGenerationFailure(a, budget) == NextIteration(a, budget)

\* `if success: return`, else fall through to the retry pause; a fault of
\* record_attempt is caught by the outer `except Exception`, which skips the
\* return
AfterRecording(succ, record_raised) ==
    IF record_raised THEN "Retrying"
    ELSE IF succ THEN "Succeeded" ELSE "Retrying"

\* a call of generate_and_test_code
Submit(task, budget, with_trainer) ==
    /\ pc = "Idle"
    /\ runs < MaxRuns
    /\ budgeted + budget <= MaxTotal
    /\ runs' = runs + 1
    /\ budgeted' = budgeted + budget
    /\ prompt' = task
    /\ max_attempts' = budget
    /\ trainer' = with_trainer
    /\ attempt' = 0
    /\ pc' = IF 0 < budget THEN "Generating" ELSE "Exhausted"
    /\ UNCHANGED <<response, file_path, success, error>>
    /\ UNCHANGED <<clientVars, callVars, dbVars>>
    /\ UNCHANGED <<genCalls, execCalls, recCalls, sentPrompts, execErrors,
                   lastGen, lastExec, lastRec, sawSuccess, env>>

\* the transports the loop's client meets
LoopBodies == { <<Line("object", "text", <<"a">>, TRUE)>>, <<ScalarLine>> }

\* await asyncio.wait_for(client.generate(...), timeout)
Generate(transport, status, body, timed_out) ==
    /\ pc = "Generating"
    /\ genCalls' = genCalls + 1
    /\ sentPrompts' = Append(sentPrompts,
            generation_prompt(prompt, IF execErrors = <<>> THEN None
                                      ELSE execErrors[Len(execErrors)]))
    /\ LET r == generate(2, 1000, transport, status, body)
       IN  IF timed_out \/ r.raised # "none"
           THEN /\ lastGen' = IF timed_out THEN "timeout" ELSE "fault"
                /\ attempt' = AfterGenerationFailure(attempt, max_attempts).attempt
                /\ pc' = AfterGenerationFailure(attempt, max_attempts).pc
                /\ env' = [env EXCEPT !.genFailed = TRUE]
                /\ UNCHANGED response
           ELSE /\ lastGen' = "ok"
                /\ response' = r.content
                /\ pc' = "Saving"
                /\ UNCHANGED <<attempt, env>>
    /\ UNCHANGED <<prompt, max_attempts, trainer, file_path, success, error>>
    /\ UNCHANGED <<clientVars, callVars, dbVars>>
    /\ UNCHANGED <<runs, budgeted, execCalls, recCalls, execErrors, lastExec,
                   lastRec, sawSuccess>>

\* await trainer.save_generated_code(...): with no trainer the attribute
\* lookup on None raises AttributeError, caught like any other fault
Save(outcome) ==
    /\ pc = "Saving"
    /\ LET r == IF trainer
                THEN save_generated_code(files, training_attempts, prompt, outcome)
                ELSE save_generated_code(files, training_attempts, prompt,
                                         "AttributeError")
       IN  /\ files' = r.files
           /\ file_path' = r.file_path
           /\ IF r.raised
              THEN /\ attempt' = NextIteration(attempt, max_attempts).attempt
                   /\ pc' = NextIteration(attempt, max_attempts).pc
              ELSE /\ pc' = "Executing"
                   /\ UNCHANGED attempt
           /\ env' = IF r.raised /\ trainer
                     THEN [env EXCEPT !.dbFault = TRUE] ELSE env
    /\ UNCHANGED <<prompt, max_attempts, trainer, response, success, error>>
    /\ UNCHANGED <<clientVars, callVars, training_attempts, task_best_versions>>
    /\ UNCHANGED <<runs, budgeted, genCalls, execCalls, recCalls, sentPrompts,
                   execErrors, lastGen, lastExec, lastRec, sawSuccess>>

\* await asyncio.wait_for(execute_generated_code(file_path, context), 30)
Execute(fault, timed_out) ==
    /\ pc = "Executing"
    /\ execCalls' = execCalls + 1
    /\ LET r == IF timed_out THEN ExecTimeoutOutcome
                ELSE execute_generated_code(fault)
       IN  /\ lastExec' = IF timed_out THEN "timeout"
                          ELSE IF fault = "none" THEN "ok" ELSE fault
           /\ IF r.propagated # "none"
              THEN /\ pc' = "Raised"
                   /\ UNCHANGED <<success, error, execErrors, sawSuccess>>
                   /\ env' = [env EXCEPT !.execFailed = TRUE]
              ELSE /\ success' = r.success
                   /\ error' = r.error
                   /\ execErrors' = Append(execErrors, r.error)
                   /\ sawSuccess' = (sawSuccess \/ r.success)
                   /\ env' = IF r.success THEN env
                             ELSE [env EXCEPT !.execFailed = TRUE]
                   /\ pc' = IF trainer THEN "Recording"
                            ELSE AfterRecording(r.success, FALSE)
    /\ UNCHANGED <<prompt, max_attempts, trainer, attempt, response, file_path>>
    /\ UNCHANGED <<clientVars, callVars, dbVars>>
    /\ UNCHANGED <<runs, budgeted, genCalls, recCalls, sentPrompts, lastGen,
                   lastRec>>

\* await trainer.record_attempt(...), then `if success: return`
Record(outcome) ==
    /\ pc = "Recording"
    /\ recCalls' = recCalls + 1
    /\ lastRec' = [success |-> success, error |-> error,
                   file_location |-> file_path]
    /\ LET r == record_attempt(training_attempts, task_best_versions, prompt,
                               response, success, error, file_path, outcome)
       IN  /\ training_attempts' = r.training_attempts
           /\ task_best_versions' = r.task_best_versions
           /\ pc' = AfterRecording(success, r.raised)
           /\ env' = IF r.raised THEN [env EXCEPT !.dbFault = TRUE] ELSE env
    /\ UNCHANGED <<prompt, max_attempts, trainer, attempt, response, file_path,
                   success, error>>
    /\ UNCHANGED <<clientVars, callVars, files>>
    /\ UNCHANGED <<runs, budgeted, genCalls, execCalls, sentPrompts,
                   execErrors, lastGen, lastExec, sawSuccess>>

\* if attempt < max_attempts - 1: await asyncio.sleep(1); then the next
\* iteration
Retry ==
    /\ pc = "Retrying"
    /\ attempt' = NextIteration(attempt, max_attempts).attempt
    /\ pc' = NextIteration(attempt, max_attempts).pc
    /\ UNCHANGED <<prompt, max_attempts, trainer, response, file_path,
                   success, error>>
    /\ UNCHANGED <<clientVars, callVars, dbVars, obsVars>>

\* the call has returned (or raised); the caller may submit again
Return ==
    /\ pc \in {"Succeeded", "Exhausted", "Raised"}
    /\ runs < MaxRuns
    /\ pc' = "Idle"
    /\ attempt' = 0
    /\ response' = None
    /\ file_path' = None
    /\ success' = FALSE
    /\ error' = None
    /\ genCalls' = 0
    /\ execCalls' = 0
    /\ recCalls' = 0
    /\ sentPrompts' = <<>>
    /\ execErrors' = <<>>
    /\ lastGen' = "none"
    /\ lastExec' = "none"
    /\ lastRec' = NoRec
    /\ sawSuccess' = FALSE
    /\ env' = NoEnv
    /\ UNCHANGED <<prompt, max_attempts, trainer, runs, budgeted>>
    /\ UNCHANGED <<clientVars, callVars, dbVars>>

Next ==
    \/ \E task \in Tasks, budget \in 0..MaxBudget, with_trainer \in BOOLEAN :
          Submit(task, budget, with_trainer)
    \/ \E transport \in Transports, status \in {200, 500},
          body \in LoopBodies, timed_out \in BOOLEAN :
          Generate(transport, status, body, timed_out)
    \/ \E outcome \in {"ok", "fault"} : Save(outcome)
    \/ \E fault \in {"none"} \cup FaultKinds, timed_out \in BOOLEAN :
          Execute(fault, timed_out)
    \/ \E outcome \in RecordOutcomes : Record(outcome)
    \/ Retry
    \/ Return

Spec == Init /\ [][Next]_vars

-----------------------------------------------------------------------------
(* OllamaClient.generate called directly: the call's arguments and the      *)
(* transport's behaviour are drawn first, then the call is made             *)

\* temperature and max_tokens are passed or omitted; earlier holds the
\* arguments of the call made before this one on the same client, if any
ClientArguments ==
    [temperature : {None, <<5>>}, max_tokens : {None, <<100>>}]

ClientCalls ==
    [temperature : {None, <<5>>},
     max_tokens : {None, <<100>>},
     transport : Transports, status : Statuses, body : Bodies,
     earlier : {None}]

InitClientCall ==
    /\ cl_call \in ClientCalls
    /\ cl_result = None
    /\ InitCall
    /\ InitLoop

ClientGenerate ==
    /\ cl_result = None
    /\ cl_result' = <<generate(
                        bound_argument(cl_call.temperature, DefaultTemperature),
                        bound_argument(cl_call.max_tokens, DefaultMaxTokens),
                        cl_call.transport, cl_call.status, cl_call.body)>>
    /\ UNCHANGED <<cl_call, callVars, loopVars, dbVars, obsVars>>

\* a second call on the same client, with arguments of its own
ClientGenerateAgain(args) ==
    /\ cl_result # None
    /\ cl_call.earlier = None
    /\ cl_call' = [cl_call EXCEPT
                     !.temperature = args.temperature,
                     !.max_tokens = args.max_tokens,
                     !.earlier = <<[temperature |-> cl_call.temperature,
                                    max_tokens |-> cl_call.max_tokens]>>]
    /\ cl_result' = <<generate(
                        bound_argument(args.temperature, DefaultTemperature),
                        bound_argument(args.max_tokens, DefaultMaxTokens),
                        cl_call.transport, cl_call.status, cl_call.body)>>
    /\ UNCHANGED <<callVars, loopVars, dbVars, obsVars>>

NextClient ==
    \/ ClientGenerate
    \/ \E args \in ClientArguments : ClientGenerateAgain(args)

SpecClient == InitClientCall /\ [][NextClient]_vars

-----------------------------------------------------------------------------
(* The other operations called directly: the call is drawn first, then made *)

HealthCalls ==
    [op : {"health_check"}, transport : Transports, status : HealthStatuses]

CleanCalls == [op : {"clean_generated_code"}, content : Texts]

SessionCalls == [op : {"async_with"}, exit : ExitPaths]

PatientCalls ==
    [op : {"get_patient"}, patient_id : PatientIds, upstream : Upstreams,
     fields : SUBSET OptionalFields]

ExplorerCalls ==
    [op : {"explore_resource_structure", "get_resource_relationships"},
     resource_id : PatientIds, resource_type : ResourceTypes,
     upstream : Upstreams, fields : SUBSET OptionalFields]

\* two calls of trainer methods made one after the other, as the loop makes
\* them for its attempts
PoolCalls ==
    [op : {"pooled"}, methods : [1..2 -> TrainerMethods], flag : BOOLEAN]

\* two record_attempt calls for the same task that run at the same time;
\* success[p] is the outcome that call p records, prior the number of
\* attempts of the task recorded before
RecordPairCalls ==
    [op : {"record_pair"}, task : {"x"}, success : [1..2 -> BOOLEAN],
     prior : 0..1]

Calls ==
    HealthCalls \cup CleanCalls \cup SessionCalls \cup PatientCalls
        \cup ExplorerCalls \cup PoolCalls \cup RecordPairCalls

InitCallDrawn ==
    /\ fn_call \in Calls
    /\ fn_result = None
    /\ InitClient
    /\ InitLoop

HealthCheck ==
    /\ fn_call.op = "health_check"
    /\ fn_result = None
    /\ fn_result' = <<health_check(fn_call.transport, fn_call.status)>>
    /\ UNCHANGED <<fn_call, clientVars, loopVars, dbVars, obsVars>>

\* clean_generated_code(content)
CleanGeneratedCode ==
    /\ fn_call.op = "clean_generated_code"
    /\ fn_result = None
    /\ fn_result' = <<[value |-> clean_generated_code(fn_call.content),
                       calls |-> 1, previous |-> fn_call.content]>>
    /\ UNCHANGED <<fn_call, clientVars, loopVars, dbVars, obsVars>>

\* clean_generated_code applied to its own result
CleanGeneratedCodeAgain ==
    /\ fn_call.op = "clean_generated_code"
    /\ fn_result # None
    /\ fn_result[1].calls = 1
    /\ fn_result' = <<[value |-> clean_generated_code(fn_result[1].value),
                       calls |-> 2, previous |-> fn_result[1].value]>>
    /\ UNCHANGED <<fn_call, clientVars, loopVars, dbVars, obsVars>>

\* __init__ and __aenter__: the client holds an open httpx.AsyncClient
SessionEnter ==
    /\ fn_call.op = "async_with"
    /\ fn_result = None
    /\ fn_result' = <<[scope |-> "inside", client |-> "open", exc_type |-> None]>>
    /\ UNCHANGED <<fn_call, clientVars, loopVars, dbVars, obsVars>>

\* the body of the scope is left by return, by a fault or by cancellation
SessionLeaveBody ==
    /\ fn_call.op = "async_with"
    /\ fn_result # None
    /\ fn_result[1].scope = "inside"
    /\ fn_result' = <<[fn_result[1] EXCEPT !.scope = "leaving",
                                           !.exc_type = exc_type_of(fn_call.exit)]>>
    /\ UNCHANGED <<fn_call, clientVars, loopVars, dbVars, obsVars>>

\* __aexit__(exc_type, exc_val, exc_tb)
SessionExit ==
    /\ fn_call.op = "async_with"
    /\ fn_result # None
    /\ fn_result[1].scope = "leaving"
    /\ fn_result' = <<[fn_result[1] EXCEPT
                         !.scope = "left",
                         !.client = aexit(fn_result[1].client, fn_result[1].exc_type)]>>
    /\ UNCHANGED <<fn_call, clientVars, loopVars, dbVars, obsVars>>

\* FHIRClient.get_patient(patient_id)
GetPatient ==
    /\ fn_call.op = "get_patient"
    /\ fn_result = None
    /\ fn_result' = <<get_patient(fn_call.patient_id, fn_call.upstream,
                                  fn_call.fields)>>
    /\ UNCHANGED <<fn_call, clientVars, loopVars, dbVars, obsVars>>

\* FHIRExplorer.explore_resource_structure(resource_type)
ExploreResourceStructure ==
    /\ fn_call.op = "explore_resource_structure"
    /\ fn_result = None
    /\ fn_result' = <<explore_resource_structure(fn_call.resource_type,
                                                 fn_call.upstream, fn_call.fields)>>
    /\ UNCHANGED <<fn_call, clientVars, loopVars, dbVars, obsVars>>

\* FHIRExplorer.get_resource_relationships(resource_id, resource_type)
GetResourceRelationships ==
    /\ fn_call.op = "get_resource_relationships"
    /\ fn_result = None
    /\ fn_result' = <<get_resource_relationships(fn_call.resource_id,
                          fn_call.resource_type, fn_call.upstream, fn_call.fields)>>
    /\ UNCHANGED <<fn_call, clientVars, loopVars, dbVars, obsVars>>

\* FHIRAgentTrainer.initialize(): the pool exists, no connection is held
TrainerInitialize ==
    /\ fn_call.op = "pooled"
    /\ fn_result = None
    /\ fn_result' = <<[index |-> 1, at |-> "outside", query |-> 0, held |-> 0,
                       raised |-> FALSE, faulted |-> FALSE]>>
    /\ UNCHANGED <<fn_call, clientVars, loopVars, dbVars, obsVars>>

\* __aenter__ of self.db_pool.acquire(): the call gets its connection, or the
\* acquire raises and the call ends without one
PoolAcquire(acquired) ==
    /\ fn_call.op = "pooled"
    /\ fn_result # None
    /\ fn_result[1].at = "outside"
    /\ fn_result[1].index <= Len(fn_call.methods)
    /\ fn_result' =
         IF acquired
         THEN <<[fn_result[1] EXCEPT !.at = "query", !.query = 1,
                                     !.held = @ + 1, !.raised = FALSE]>>
         ELSE <<[fn_result[1] EXCEPT !.index = @ + 1, !.faulted = TRUE]>>
    /\ UNCHANGED <<fn_call, clientVars, loopVars, dbVars, obsVars>>

\* one await conn.fetchval / fetchrow / fetch / execute of the call; it
\* returns or it raises
PoolQuery(faulty) ==
    /\ fn_call.op = "pooled"
    /\ fn_result # None
    /\ fn_result[1].at = "query"
    /\ fn_result' =
         IF faulty
         THEN <<[fn_result[1] EXCEPT !.at = "exit", !.raised = TRUE,
                                     !.faulted = TRUE]>>
         ELSE IF fn_result[1].query =
                   queries_of(fn_call.methods[fn_result[1].index], fn_call.flag)
         THEN <<[fn_result[1] EXCEPT !.at = "exit"]>>
         ELSE <<[fn_result[1] EXCEPT !.query = @ + 1]>>
    /\ UNCHANGED <<fn_call, clientVars, loopVars, dbVars, obsVars>>

\* the `async with` block is left; save_generated_code goes on to write its
\* file, the other calls end
PoolRelease ==
    /\ fn_call.op = "pooled"
    /\ fn_result # None
    /\ fn_result[1].at = "exit"
    /\ LET r == fn_result[1]
           writes == fn_call.methods[r.index] = "save_generated_code" /\ ~r.raised
       IN  fn_result' =
             <<[r EXCEPT !.held = release(r.held, r.raised),
                         !.at = IF writes THEN "write_text" ELSE "outside",
                         !.index = IF writes THEN @ ELSE @ + 1]>>
    /\ UNCHANGED <<fn_call, clientVars, loopVars, dbVars, obsVars>>

\* file_path.write_text(full_code), after the connection was released
WriteText ==
    /\ fn_call.op = "pooled"
    /\ fn_result # None
    /\ fn_result[1].at = "write_text"
    /\ fn_result' = <<[fn_result[1] EXCEPT !.at = "outside", !.index = @ + 1]>>
    /\ UNCHANGED <<fn_call, clientVars, loopVars, dbVars, obsVars>>

\* the rows recorded before the two calls start
PriorRows(task, n) ==
    [i \in 1..n |->
        [AttemptRow(task, <<>>, FALSE, ErrorText("NameError"), None, <<>>)
            EXCEPT !.version = i]]

\* both calls have been made and wait for their first statement
RecordPairBegin ==
    /\ fn_call.op = "record_pair"
    /\ fn_result = None
    /\ fn_result' = <<[at |-> [p \in 1..2 |-> "select"],
                       current_version |-> [p \in 1..2 |-> 0],
                       rows |-> PriorRows(fn_call.task, fn_call.prior),
                       best |-> [h \in Hashes |-> 0],
                       inserted |-> <<>>]>>
    /\ UNCHANGED <<fn_call, clientVars, loopVars, dbVars, obsVars>>

\* call p: await conn.fetchval("SELECT MAX(version) + 1 ...") or 1
RecordSelect(p) ==
    /\ fn_call.op = "record_pair"
    /\ fn_result # None
    /\ fn_result[1].at[p] = "select"
    /\ fn_result' =
         <<[fn_result[1] EXCEPT
              !.at[p] = "insert",
              !.current_version[p] =
                  current_version(fn_result[1].rows, task_hash(fn_call.task))]>>
    /\ UNCHANGED <<fn_call, clientVars, loopVars, dbVars, obsVars>>

\* call p: await conn.fetchval("INSERT INTO training_attempts ..."), with the
\* version it read before
RecordInsert(p) ==
    /\ fn_call.op = "record_pair"
    /\ fn_result # None
    /\ fn_result[1].at[p] = "insert"
    /\ LET r == fn_result[1]
           succ == fn_call.success[p]
           row == [AttemptRow(fn_call.task, <<>>, succ,
                              IF succ THEN None ELSE ErrorText("NameError"),
                              None, r.rows)
                     EXCEPT !.version = r.current_version[p]]
       IN  fn_result' =
             <<[r EXCEPT !.at[p] = IF succ THEN "upsert" ELSE "done",
                         !.rows = Append(r.rows, row),
                         !.inserted = Append(r.inserted, p)]>>
    /\ UNCHANGED <<fn_call, clientVars, loopVars, dbVars, obsVars>>

\* call p: if success: await conn.execute("INSERT INTO task_best_versions ...")
RecordUpsert(p) ==
    /\ fn_call.op = "record_pair"
    /\ fn_result # None
    /\ fn_result[1].at[p] = "upsert"
    /\ fn_result' =
         <<[fn_result[1] EXCEPT
              !.at[p] = "done",
              !.best = UpsertBestVersion(fn_result[1].best,
                                         task_hash(fn_call.task),
                                         fn_result[1].current_version[p])]>>
    /\ UNCHANGED <<fn_call, clientVars, loopVars, dbVars, obsVars>>

NextCall ==
    \/ RecordPairBegin
    \/ \E p \in 1..2 : RecordSelect(p)
    \/ \E p \in 1..2 : RecordInsert(p)
    \/ \E p \in 1..2 : RecordUpsert(p)
    \/ TrainerInitialize
    \/ \E acquired \in BOOLEAN : PoolAcquire(acquired)
    \/ \E faulty \in BOOLEAN : PoolQuery(faulty)
    \/ PoolRelease
    \/ WriteText
    \/ HealthCheck
    \/ CleanGeneratedCode
    \/ CleanGeneratedCodeAgain
    \/ SessionEnter
    \/ SessionLeaveBody
    \/ SessionExit
    \/ GetPatient
    \/ ExploreResourceStructure
    \/ GetResourceRelationships

SpecCalls == InitCallDrawn /\ [][NextCall]_vars

-----------------------------------------------------------------------------
(* Properties *)

Terminal == {"Succeeded", "Exhausted", "Raised"}

RowsOf(h) == { i \in 1..Len(training_attempts) : training_attempts[i].task_hash = h }

SuccessfulRowsOf(h) == { i \in RowsOf(h) : training_attempts[i].success }

Min(S) == CHOOSE m \in S : \A n \in S : m <= n

\* C1: a run makes at most max_attempts generation calls, and once an
\* execution of the run has returned success the run makes no further
\* generation call and does not end in Exhausted.
C1_Claim ==
    /\ genCalls <= max_attempts
    /\ sawSuccess => pc \notin {"Generating", "Saving", "Executing", "Exhausted"}

\* C2: in a run where every generation and save completes and every
\* execution fails, the prompt of attempt n > 1 is the task augmented with
\* the error text of the execution of attempt n-1; with budget 3 the run
\* ends in Exhausted after exactly 3 generations and 3 executions.
C2_Claim ==
    (trainer /\ ~env.genFailed /\ ~env.dbFault /\ ~sawSuccess /\ pc # "Raised")
    => /\ \A n \in 2..Len(sentPrompts) :
            n - 1 <= Len(execErrors)
            => sentPrompts[n] = [task |-> prompt, error |-> execErrors[n - 1]]
       /\ (pc \in Terminal /\ max_attempts = 3)
            => (pc = "Exhausted" /\ genCalls = 3 /\ execCalls = 3)

\* C3: a run with budget 1 whose generation completes and whose execution
\* never fails ends in Succeeded after exactly one generation and one
\* execution, with or without a trainer attached.
C3_Claim ==
    (pc \in Terminal /\ max_attempts = 1
        /\ ~env.genFailed /\ ~env.execFailed /\ ~env.dbFault)
    => (pc = "Succeeded" /\ genCalls = 1 /\ execCalls = 1)

\* C4: a generation that times out or faults is followed by no execution and
\* no recording of that attempt; the attempt is counted, and the loop goes to
\* the next generation if budget remains and to Exhausted otherwise.
C4_GenerationFailureSkipsAttempt ==
    [][ (pc = "Generating" /\ genCalls' = genCalls + 1
            /\ lastGen' \in {"timeout", "fault"})
        => /\ execCalls' = execCalls
           /\ recCalls' = recCalls
           /\ training_attempts' = training_attempts
           /\ task_best_versions' = task_best_versions
           /\ files' = files
           /\ attempt' = attempt + 1
           /\ pc' = IF attempt + 1 < max_attempts THEN "Generating"
                    ELSE "Exhausted" ]_vars

\* C4 witness: the first generation timed out, nothing was executed or
\* recorded, and the loop is at the second attempt's generation.
C4_Witness ==
    /\ lastGen = "timeout"
    /\ pc = "Generating"
    /\ attempt = 1
    /\ genCalls = 1
    /\ execCalls = 0
    /\ recCalls = 0

\* C5: generate_and_test_code never raises to its caller.
C5_Claim == pc # "Raised"

\* C6: whatever the generated code raises, execute_generated_code returns
\* (False, text) with a non-empty fault-kind name first, and it returns
\* (True, None) only when nothing was raised.
C6_Claim ==
    /\ lastExec \in FaultKinds
        => /\ pc # "Raised"
           /\ ~success
           /\ error # None
           /\ Head(error) = lastExec
    /\ (lastExec # "none" /\ success /\ error = None) => lastExec = "ok"

\* C7: per fingerprint the versions of the attempt rows start at 1 and
\* increase strictly in insertion order, and a fingerprint with a successful
\* row has a best-version row holding the version of its last successful row.
C7_Claim ==
    \A h \in Hashes :
        /\ \A i, j \in RowsOf(h) :
              i < j => training_attempts[i].version < training_attempts[j].version
        /\ RowsOf(h) # {} => training_attempts[Min(RowsOf(h))].version = 1
        /\ SuccessfulRowsOf(h) # {}
              => task_best_versions[h]
                    = training_attempts[Max(SuccessfulRowsOf(h))].version

\* C8: an execution wait that times out yields the outcome
\* (False, "Execution timed out"); the recorder is called with it, any row it
\* writes is unsuccessful with that classification, the best versions stay,
\* and the loop goes on to its retry or exhaustion decision, not Succeeded.
C8_ExecutionTimeoutIsFailure ==
    [][ /\ (pc = "Executing" /\ execCalls' = execCalls + 1 /\ lastExec' = "timeout")
            => /\ ~success'
               /\ error' = <<"Execution timed out">>
               /\ pc' = IF trainer THEN "Recording" ELSE "Retrying"
        /\ (pc = "Recording" /\ lastExec = "timeout")
            => /\ recCalls' = recCalls + 1
               /\ ~lastRec'.success
               /\ lastRec'.error = <<"Execution timed out">>
               /\ task_best_versions' = task_best_versions
               /\ \/ training_attempts' = training_attempts
                  \/ /\ Len(training_attempts') = Len(training_attempts) + 1
                     /\ ~training_attempts'[Len(training_attempts')].success
                     /\ training_attempts'[Len(training_attempts')].error_type
                            = <<"Execution timed out">>
               /\ pc' = "Retrying"
        /\ (pc = "Retrying" /\ lastExec = "timeout")
            => /\ attempt' = attempt + 1
               /\ pc' = IF attempt + 1 < max_attempts THEN "Generating"
                        ELSE "Exhausted" ]_vars

\* C8 witness: a timed-out execution has been recorded as a failed row
\* classified "Execution timed out" and the loop is at its retry decision.
C8_Witness ==
    /\ pc = "Retrying"
    /\ lastExec = "timeout"
    /\ recCalls = execCalls
    /\ training_attempts # <<>>
    /\ training_attempts[Len(training_attempts)].error_type
            = <<"Execution timed out">>
    /\ ~training_attempts[Len(training_attempts)].success

\* C9: when the transport cannot reach the endpoint or the endpoint answers
\* with a non-success status, generate raises ModelServiceError.
C9_Claim ==
    (cl_result # None
        /\ (cl_call.transport # "answer" \/ ~is_success(cl_call.status)))
    => cl_result[1].raised = "ModelServiceError"

\* the lines that are chunks: JSON objects
ChunksOf(body) == SelectSeq(body, LAMBDA l : l.kind = "object")

RECURSIVE ConcatResponses(_)
ConcatResponses(chunks) ==
    IF chunks = <<>> THEN <<>>
    ELSE (IF Head(chunks).resp = "text" THEN Head(chunks).text ELSE <<>>)
            \o ConcatResponses(Tail(chunks))

\* C10: for every body that the endpoint answers with, generate returns the
\* concatenation in order of the response fields of the chunks, skipping
\* every other line, and the last chunk (or an empty mapping) as raw_response.
C10_Claim ==
    (cl_result # None /\ cl_call.transport = "answer"
        /\ is_success(cl_call.status))
    => /\ cl_result[1].raised = "none"
       /\ cl_result[1].content = ConcatResponses(ChunksOf(cl_call.body))
       /\ cl_result[1].raw_response =
            IF ChunksOf(cl_call.body) = <<>> THEN EmptyMapping
            ELSE Mapping(ChunksOf(cl_call.body)[Len(ChunksOf(cl_call.body))])


\* C11: health_check never raises; it returns True exactly when the health
\* endpoint answers with status 200, and False for every other status and
\* for every transport fault.
C11_HealthCheckNeverRaises ==
    (fn_call # None /\ fn_call.op = "health_check" /\ fn_result # None)
    => /\ fn_result[1].raised = "none"
       /\ fn_result[1].value
            = (fn_call.transport = "answer" /\ fn_call.status = 200)

\* C11 witness: a health check met a transport fault and returned False.
C11_Witness ==
    /\ fn_call # None
    /\ fn_call.op = "health_check"
    /\ fn_call.transport = "ConnectError"
    /\ fn_result = <<Returned(FALSE)>>

\* C12: clean_generated_code is idempotent: applied to its own result it
\* returns that result unchanged.
C12_CleanIdempotent ==
    (fn_call # None /\ fn_call.op = "clean_generated_code"
        /\ fn_result # None /\ fn_result[1].calls = 2)
    => fn_result[1].value = fn_result[1].previous

\* C12 witness: cleaning changed the text, and cleaning the result again
\* has been done.
C12_Witness ==
    /\ fn_call # None
    /\ fn_call.op = "clean_generated_code"
    /\ fn_result # None
    /\ fn_result[1].calls = 2
    /\ fn_result[1].value # fn_call.content
    /\ Len(fn_result[1].value) >= 2

\* a fence line, with or without a language tag or a margin
IsFenceLine(line) == strip(line) # <<>> /\ Head(strip(line)) = "fence"

\* a line shaped like prose: it starts with a stock word, or it is a
\* capitalised sentence with a period
IsProseLine(line) ==
    /\ line # <<>>
    /\ \/ Head(line) = "Here"
       \/ Head(line) = "X" /\ \E i \in 1..Len(line) : line[i] = "."

\* C13: the result of clean_generated_code has no fence line and no line
\* shaped like prose.
C13_Claim ==
    (fn_call # None /\ fn_call.op = "clean_generated_code" /\ fn_result # None)
    => \A i \in 1..Len(fn_result[1].value) :
            /\ ~IsFenceLine(fn_result[1].value[i])
            /\ ~IsProseLine(fn_result[1].value[i])

\* C14: once the scope of `async with OllamaClient()` has been left, by
\* return, by a fault or by cancellation, the HTTP connection is closed.
C14_ScopeLeftImpliesClosed ==
    (fn_call # None /\ fn_call.op = "async_with"
        /\ fn_result # None /\ fn_result[1].scope = "left")
    => fn_result[1].client = "closed"

\* C14 witness: the scope was left by cancellation, and the connection is
\* closed.
C14_Witness ==
    /\ fn_call # None
    /\ fn_call.op = "async_with"
    /\ fn_call.exit = "cancel"
    /\ fn_result # None
    /\ fn_result[1].scope = "left"
    /\ fn_result[1].exc_type = <<"CancelledError">>
    /\ fn_result[1].client = "closed"

\* the read that get_patient makes succeeds
ReadSucceeds(call) ==
    call.upstream = "answer" /\ call.patient_id \in StoredPatients

\* C15: get_patient never raises; it returns None when the identifier does
\* not exist or the read fails, and the Patient document when the read
\* succeeds.
C15_GetPatientNeverRaises ==
    (fn_call # None /\ fn_call.op = "get_patient" /\ fn_result # None)
    => /\ fn_result[1].raised = "none"
       /\ ~ReadSucceeds(fn_call) => fn_result[1].value = None
       /\ ReadSucceeds(fn_call) =>
            /\ fn_result[1].value # None
            /\ fn_result[1].value[1].resourceType = "Patient"
            /\ fn_result[1].value[1].id = fn_call.patient_id

\* C15 witness: the read failed with a fault other than not-found, and
\* get_patient returned None.
C15_Witness ==
    /\ fn_call # None
    /\ fn_call.op = "get_patient"
    /\ fn_call.upstream = "ConnectionError"
    /\ fn_result = <<Returned(None)>>

IsExplorerCall ==
    /\ fn_call # None
    /\ fn_call.op \in {"explore_resource_structure", "get_resource_relationships"}

\* C16: for a resource type other than Patient both explorer operations
\* return an error whose message ends with "not yet supported", and read
\* nothing from the server.
C16_UnsupportedTypeNoRead ==
    (IsExplorerCall /\ fn_call.resource_type # "Patient" /\ fn_result # None)
    => /\ fn_result[1].kind = "error"
       /\ fn_result[1].message[Len(fn_result[1].message)] = " not yet supported"
       /\ fn_result[1].reads = 0

\* C16 witness: get_resource_relationships was asked for an Observation of
\* a reachable server and answered with the error.
C16_Witness ==
    /\ IsExplorerCall
    /\ fn_call.op = "get_resource_relationships"
    /\ fn_call.resource_type = "Observation"
    /\ fn_call.upstream = "answer"
    /\ fn_result # None
    /\ fn_result[1].kind = "error"
    /\ fn_result[1].reads = 0

\* the entries that the claim allows for a document with these fields
ExpectedReferences(fields) ==
    (IF "managingOrganization" \in fields
     THEN <<[type |-> "Organization", field |-> "managingOrganization",
             reference |-> field_value("managingOrganization")]>>
     ELSE <<>>)
    \o
    (IF "generalPractitioner" \in fields
     THEN <<[type |-> "Practitioner", field |-> "generalPractitioner",
             reference |-> field_value("generalPractitioner")]>>
     ELSE <<>>)

\* C17: the references of a Patient come only from the top-level fields
\* managingOrganization and generalPractitioner, one entry per field
\* present, in that order; references nested elsewhere never appear.
C17_ReferencesFromFixedFields ==
    (IsExplorerCall /\ fn_call.op = "get_resource_relationships"
        /\ fn_result # None /\ fn_result[1].kind = "references")
    => /\ fn_result[1].references = ExpectedReferences(fn_call.fields)
       /\ Len(fn_result[1].references) <= 2
       /\ \A i \in 1..Len(fn_result[1].references) :
            fn_result[1].references[i].field
                \in {"managingOrganization", "generalPractitioner"}

\* C17 witness: the document holds both fields and nested references in
\* link and contact, and two entries were returned.
C17_Witness ==
    /\ IsExplorerCall
    /\ fn_call.op = "get_resource_relationships"
    /\ fn_call.fields = OptionalFields
    /\ fn_result # None
    /\ fn_result[1].kind = "references"
    /\ Len(fn_result[1].references) = 2

\* C18: the metadata of a successful generate holds the client's model
\* identifier and the temperature and max_tokens passed to that call, 0.7
\* and 2000 when omitted, whatever an earlier call was given.
C18_MetadataEchoesArguments ==
    (cl_result # None /\ cl_result[1].raised = "none")
    => cl_result[1].metadata =
         <<[model |-> model,
            temperature |-> IF cl_call.temperature = None THEN 7
                            ELSE cl_call.temperature[1],
            max_tokens |-> IF cl_call.max_tokens = None THEN 2000
                           ELSE cl_call.max_tokens[1]]>>

\* C18 witness: a call that passed both arguments was followed by a
\* successful call that omitted the temperature and passed max_tokens.
C18_Witness ==
    /\ cl_result # None
    /\ cl_result[1].raised = "none"
    /\ cl_call.earlier = <<[temperature |-> <<5>>, max_tokens |-> <<100>>]>>
    /\ cl_call.temperature = None
    /\ cl_call.max_tokens = <<100>>
    /\ cl_result[1].metadata[1].temperature = 7
    /\ cl_result[1].metadata[1].max_tokens = 100

\* the steps of one run come one after another, one generation per attempt:
\* an execution starts only after the attempt's generation and save, a
\* recording only after the attempt's execution
StepsInOrder ==
    /\ pc \in {"Generating", "Exhausted"} => genCalls = attempt
    /\ pc \in {"Saving", "Executing", "Recording", "Retrying", "Succeeded",
               "Raised"} => genCalls = attempt + 1
    /\ execCalls <= genCalls
    /\ recCalls <= execCalls
    /\ pc = "Executing" => lastGen = "ok" /\ file_path # None
    /\ (pc = "Executing" /\ trainer) => recCalls = execCalls
    /\ pc = "Recording" => trainer /\ recCalls + 1 = execCalls

\* with a recorder attached, every execution made so far has had its one
\* record_attempt call, and the last call carried the last outcome
EveryExecutionRecorded ==
    (trainer /\ pc # "Recording")
    => /\ recCalls = execCalls
       /\ execCalls > 0 => (lastRec.success = success /\ lastRec.error = error)

\* C19: the steps of a run are sequential and ordered per attempt, and with
\* a recorder attached every execution is followed by exactly one
\* record_attempt call carrying that execution's outcome.
C19_Claim == StepsInOrder /\ EveryExecutionRecorded

\* the first segments an error text can have: the name of the fault's kind,
\* or the text of the timeout
ErrorHeads == {k \in FaultKinds : IsException(k)} \cup {"Execution timed out"}

\* success exactly when the error text is absent; on failure the text
\* starts with a non-empty segment
OutcomeWellFormed(succ, err) ==
    /\ succ <=> (err = None)
    /\ ~succ => (Head(err) # "" /\ Head(err) \in ErrorHeads)

\* C20: every execution outcome and every attempt record has success true
\* exactly when the error text is absent, and on failure the recorded error
\* type is the non-empty text before the first colon of the error text.
C20_OutcomeAndRecordWellFormed ==
    /\ execErrors # <<>> => OutcomeWellFormed(success, error)
    /\ recCalls > 0 => OutcomeWellFormed(lastRec.success, lastRec.error)
    /\ \A i \in 1..Len(training_attempts) :
          LET row == training_attempts[i] IN
          /\ OutcomeWellFormed(row.success, row.error_message)
          /\ row.success => row.error_type = None
          /\ ~row.success => row.error_type = <<Head(row.error_message)>>

\* C20 witness: a failed execution of kind NameError and a timed-out
\* execution have both been recorded.
C20_Witness ==
    /\ \E i \in 1..Len(training_attempts) :
          /\ ~training_attempts[i].success
          /\ training_attempts[i].error_message = ErrorText("NameError")
          /\ training_attempts[i].error_type = <<"NameError">>
    /\ \E i \in 1..Len(training_attempts) :
          training_attempts[i].error_type = <<"Execution timed out">>

\* C21: a call of a trainer method holds one pooled connection while it
\* sends its statements and none after it has left the block, also when a
\* statement raised; between two calls no connection is held.
C21_ConnectionReleased ==
    (fn_call # None /\ fn_call.op = "pooled" /\ fn_result # None)
    => /\ fn_result[1].held \in {0, 1}
       /\ fn_result[1].at \in {"query", "exit"} => fn_result[1].held = 1
       /\ fn_result[1].at \in {"outside", "write_text"} => fn_result[1].held = 0

\* C21 witness: a statement of the first call raised, the call has ended and
\* the second call has not started; no connection is held.
C21_Witness ==
    /\ fn_call # None
    /\ fn_call.op = "pooled"
    /\ fn_result # None
    /\ fn_result[1].index = 2
    /\ fn_result[1].at = "outside"
    /\ fn_result[1].raised
    /\ fn_result[1].held = 0

\* the read that an explorer call makes for a Patient succeeds
ExplorerReadSucceeds ==
    /\ fn_call.upstream = "answer"
    /\ \/ fn_call.op = "explore_resource_structure"
       \/ fn_call.resource_id \in StoredPatients

\* C22: the explorer operations never raise; a fault of the read of a
\* Patient comes back as an error object, and on success the result is a
\* structure with resourceType and fields, or a references list, and no
\* error.
C22_ExplorerNeverRaises ==
    (IsExplorerCall /\ fn_result # None)
    => /\ fn_result[1].raised = "none"
       /\ (fn_call.resource_type = "Patient" /\ ~ExplorerReadSucceeds)
            => (fn_result[1].kind = "error" /\ fn_result[1].message # <<>>)
       /\ (fn_call.resource_type = "Patient" /\ ExplorerReadSucceeds)
            => IF fn_call.op = "explore_resource_structure"
               THEN /\ fn_result[1].kind = "structure"
                    /\ fn_result[1].resourceType = <<"Patient">>
                    /\ Len(fn_result[1].keys) >= 2
               ELSE fn_result[1].kind = "references"

\* C22 witness: the server could not be reached while
\* explore_resource_structure read its sample Patient, and the error object
\* was returned.
C22_Witness ==
    /\ IsExplorerCall
    /\ fn_call.op = "explore_resource_structure"
    /\ fn_call.resource_type = "Patient"
    /\ fn_call.upstream = "ConnectionError"
    /\ fn_result # None
    /\ fn_result[1].kind = "error"
    /\ fn_result[1].raised = "none"
    /\ fn_result[1].reads = 1

\* C23: a record_attempt call with success = false leaves task_best_versions
\* unchanged, and no step changes the best-version row of a fingerprint
\* other than that of the task being recorded.
C23_BestVersionsFrame ==
    [][ /\ (pc = "Recording" /\ ~success)
            => task_best_versions' = task_best_versions
        /\ \A h \in Hashes \ {task_hash(prompt)} :
              task_best_versions'[h] = task_best_versions[h] ]_vars

\* C23 witness: both tasks have a best version, the two differ, and a failed
\* attempt has been recorded as well.
C23_Witness ==
    /\ \A h \in Hashes : task_best_versions[h] > 0
    /\ \E h, k \in Hashes : task_best_versions[h] # task_best_versions[k]
    /\ \E i \in 1..Len(training_attempts) : ~training_attempts[i].success

\* the record that a Record step inserts carries the version of the file
\* name under which the attempt was saved
RecordedVersionIsSavedVersion ==
    (pc = "Recording" /\ Len(training_attempts') > Len(training_attempts))
    => training_attempts'[Len(training_attempts')].version = file_path[1].version

\* a Save step that writes a file writes it under a name not used before
SavedUnderFreshName ==
    (pc = "Saving" /\ pc' = "Executing") => file_path'[1] \notin files

\* C24: the version in the saved file name equals the version of the
\* attempt's record, and no two attempts of a task are saved under the same
\* file name, also after attempts whose generation, save or recording failed.
C24_Claim ==
    [][RecordedVersionIsSavedVersion /\ SavedUnderFreshName]_vars

C24_VersionsAgree == [][RecordedVersionIsSavedVersion]_vars

\* no two attempt records of the fingerprint carry the same version
VersionsDistinct(rows) ==
    \A i, j \in 1..Len(rows) : i # j => rows[i].version # rows[j].version

\* the successful rows, in the order of their insertion
SuccessfulRows(rows) == SelectSeq(rows, LAMBDA row : row.success)

\* the best-version row names the most recently inserted successful attempt
BestIsLatestSuccess(rows, best) ==
    SuccessfulRows(rows) # <<>>
    => best = SuccessfulRows(rows)[Len(SuccessfulRows(rows))].version

\* C25: when two record_attempt calls for one fingerprint interleave at
\* their await points, the attempt records keep distinct version numbers,
\* and once both calls have ended the best-version row names the most
\* recently inserted successful attempt.
C25_Claim ==
    (fn_call # None /\ fn_call.op = "record_pair" /\ fn_result # None)
    => /\ VersionsDistinct(fn_result[1].rows)
       /\ (\A p \in 1..2 : fn_result[1].at[p] = "done")
            => BestIsLatestSuccess(fn_result[1].rows,
                                   fn_result[1].best[task_hash(fn_call.task)])

=============================================================================
